---- MODULE Spec2Model ----
(***************************************************************************)
(* Attendance check-in flow of the school attendance application.          *)
(*                                                                         *)
(* The persistent store (users, classes, enrollments, QR codes,            *)
(* attendance rows) is the state.  POST /attendance/scan is two actions:   *)
(* its reads and checks, and the insert it awaits after them, so that      *)
(* other requests (further scans among them) run between the handler's     *)
(* check and its write.  Up to MaxScans scan requests are in flight at     *)
(* once; `scan` is the bag of their pending inserts.  The other handlers   *)
(* (generate-qr, enroll, unenroll) are one action each.                    *)
(*                                                                         *)
(* Time is counted in minutes since a local midnight (the handler works    *)
(* in milliseconds; only the 15 minute expiry and the midnight boundary    *)
(* matter here).  The Math.random() suffix of a token string is a number   *)
(* that no token of the same class and instant carries yet.                *)
(*                                                                         *)
(* The registry handlers (users, classes, class attendance report) are     *)
(* one action each, except PATCH /users/:id/role, whose three awaited      *)
(* writes are three actions with a failure possible between them.  A       *)
(* bearer token is modelled by the id of the user it was signed for.       *)
(*                                                                         *)
(* Each specification below takes the handlers one question is about:      *)
(* the check-in flow with scans in flight at once (Spec) or one after      *)
(* another (SeqSpec, TokenSpec), the registry (AdminSpec, OwnerSpec), role  *)
(* changes one at a time (RoleSpec, TornSpec) or at once (RaceSpec), the   *)
(* dashboards (DashSpec), storage calls that throw (ThrowSpec) and the     *)
(* isOwnerOrAdmin middleware (GateSpec).                                   *)
(***************************************************************************)
EXTENDS Integers, FiniteSets, Sequences, Bags, TLC

\* ---- program constants (minutes) ----
ExpiryMinutes == 15
DayMinutes == 1440

\* ---- bounds of the model ----
FineSteps == 1
MaxTokens == 1
MaxScans == 2
MaxRoleChanges == 2

\* the clock starts FineSteps minutes before a midnight
T0 == DayMinutes - FineSteps

None == "none"

UserIds == {"admin", "t1", "t2", "s1", "s2"}
ClassIds == {"c1"}
NoClass == "cX"
StudentProfileIds == {"sp1", "sp2"}

\* who sends each kind of request
QrRequesters == {"admin", "t1", "t2", "s1"}
EnrollRequesters == {"admin", "t2", "s1"}
ScanRequesters == {"s1", "s2", "t1"}

\* attendance is a bag of rows: the table has no uniqueness constraint of its
\* own, and the row ids (opaque strings) are left out
VARIABLES now, users, classes, enrollments, qrCodes, attendance, scan, last,
          roleReq, roleSeq, race

vars == <<now, users, classes, enrollments, qrCodes, attendance, scan, last,
          roleReq, roleSeq, race>>

db == <<users, classes, enrollments, qrCodes, attendance>>

\* PATCH /users/:id/role awaits its writes one after another: roleReq is the
\* request between two of them (NoRoleReq when there is none), roleSeq the
\* number of such requests that have started writing
\* (race: the role changes in flight when several run at once, see below)
roleVars == <<roleReq, roleSeq, race>>

\* ---- seed data: one admin, two teachers, two students, one class of teacher
\* t1 with student s1 enrolled; no token and no attendance row yet ----
\* every seeded user has a name and the bcrypt hash of a password
SeedName == "Seed"
SeedHash == "hash"

SeedUsers ==
  [u \in UserIds |->
     CASE u = "admin" -> [role |-> "ADMIN",   studentProfile |-> None, teacherProfile |-> None,  adminProfile |-> "ap1", name |-> SeedName, password |-> SeedHash]
       [] u = "t1"    -> [role |-> "TEACHER", studentProfile |-> None, teacherProfile |-> "tp1", adminProfile |-> None, name |-> SeedName, password |-> SeedHash]
       [] u = "t2"    -> [role |-> "TEACHER", studentProfile |-> None, teacherProfile |-> "tp2", adminProfile |-> None, name |-> SeedName, password |-> SeedHash]
       [] u = "s1"    -> [role |-> "STUDENT", studentProfile |-> "sp1", teacherProfile |-> None, adminProfile |-> None, name |-> SeedName, password |-> SeedHash]
       [] u = "s2"    -> [role |-> "STUDENT", studentProfile |-> "sp2", teacherProfile |-> None, adminProfile |-> None, name |-> SeedName, password |-> SeedHash]]

\* JSON.stringify of a schedule given as a string
jsonStringify(v) == "\"" \o v \o "\""

SeedClasses ==
  [c \in ClassIds |-> [teacherId |-> "tp1", schedule |-> jsonStringify("seed")]]

SeedEnrollments == {<<"sp1", "c1">>}

\* ---- responses ----
Resp(status, error, message) == [status |-> status, error |-> error, message |-> message]
NoResp == Resp(0, "", "")
Ok200 == Resp(200, "", "")
Forbidden == Resp(403, "Access denied", "Insufficient permissions")
ClassNotFound == Resp(404, "Class not found", "The specified class does not exist")

\* the request answered by the step that led to the current state, with its
\* response (NoLast after a step that answers no request)
Answer(op, user, classId, studentId, qrCode, resp) ==
  [op |-> op, user |-> user, classId |-> classId, studentId |-> studentId,
   qrCode |-> qrCode, resp |-> resp]
NoLast == Answer("none", None, None, None, <<>>, NoResp)

NoRoleReq == [pc |-> "none"]

Init ==
  /\ now = T0
  /\ users = SeedUsers
  /\ classes = SeedClasses
  /\ enrollments = SeedEnrollments
  /\ qrCodes = {}
  /\ attendance = EmptyBag
  /\ scan = EmptyBag
  /\ last = NoLast
  /\ roleReq = NoRoleReq
  /\ roleSeq = 0
  /\ race = {}

\* ---- the clock ----
\* followed minute by minute up to fineUntil; it may leap ahead by leap
\* minutes, up to fineUntil + ExpiryMinutes
Clock(fineUntil, leap) ==
  /\ \/ now < fineUntil /\ now' = now + 1
     \/ now + leap <= fineUntil + ExpiryMinutes /\ now' = now + leap
  /\ last' = NoLast
  /\ UNCHANGED <<db, scan, roleVars>>

Tick == Clock(T0 + FineSteps, ExpiryMinutes)

\* ---- middleware ----
\* mutant: every role passes
authorizeRolesAny(roles, user) == TRUE

\* authorizeRoles(...roles): the role of req.user is one of the allowed roles
authorizeRoles(roles, user) == user.role \in roles

\* ---- bearer tokens ----
\* A token that verifies stands for the user id it was signed for; the two
\* others are a request without a token and a token jwt.verify rejects.
NoToken == None
BadToken == "bad"
NoUser == "uX"
NoTeacher == "tpX"

Unauthorized(message) == Resp(401, "Access denied", message)

\* authenticateToken: the 401 it answers, or NoResp when it sets req.user and
\* calls next()
authenticateToken(token) ==
  IF token = NoToken THEN Unauthorized("No token provided")
  ELSE IF token = BadToken \/ token \notin DOMAIN users THEN Unauthorized("Invalid token")
  ELSE NoResp

\* [authenticateToken, authorizeRoles(...roles)]: the answer of the first
\* middleware that does not call next(), NoResp when the handler is reached
middleware(token, roles) ==
  IF authenticateToken(token) # NoResp THEN authenticateToken(token)
  ELSE IF ~authorizeRoles(roles, users[token]) THEN Forbidden
  ELSE NoResp

\* ---- POST /attendance/generate-qr ----
\* qrCodeData = `${classId}-${Date.now()}-${random suffix}`
qrCodeData(classId, t, n) == <<classId, t, n>>

\* Math.random().toString(36).substr(2, 9): a suffix not in use for (classId, t)
randomSuffix(classId, t) ==
  1 + Cardinality({q \in qrCodes : q.code[1] = classId /\ q.code[2] = t})

\* mutant: the time to live is lost (15 * 60 taken as milliseconds)
expiresAtNoTtl(t) == t

\* expiresAt: new Date(Date.now() + 15 * 60 * 1000)
expiresAt(t) == t + ExpiryMinutes

\* prisma.qRCode.create({ data: { classId, code, expiresAt } })
qrCodeRow(classId, code, t) ==
  [code |-> code, classId |-> classId, expiresAt |-> expiresAt(t)]

\* mutant: any teacher with a profile may issue for any class
teacherOwnsClassAny(user, classData) ==
  user.role = "TEACHER" => user.teacherProfile # None

\* the ownership check of generate-qr: it applies to a TEACHER only
teacherOwnsClass(user, classData) ==
  user.role = "TEACHER" =>
    (user.teacherProfile # None /\ user.teacherProfile = classData.teacherId)

NotOwnClass ==
  Resp(403, "Access denied", "You can only generate QR codes for your own classes")

\* the response of generate-qr before the token row is written
generateQrCheck(user, classId) ==
  IF ~authorizeRoles({"TEACHER", "ADMIN"}, user) THEN Forbidden
  ELSE IF classId \notin DOMAIN classes THEN ClassNotFound
  ELSE IF ~teacherOwnsClass(user, classes[classId]) THEN NotOwnClass
  ELSE Ok200

\* mutant: the new token takes the place of the tokens of its class
createQrCodeReplacing(rows, row) == {q \in rows : q.classId # row.classId} \cup {row}

\* the table after prisma.qRCode.create: one more row, the others as they were
createQrCode(rows, row) == rows \cup {row}

\* generate-qr while the table holds fewer than maxTokens tokens
IssueQr(maxTokens) ==
  \E u \in QrRequesters, c \in ClassIds \cup {NoClass} :
    LET r == generateQrCheck(users[u], c) IN
      /\ IF r = Ok200
           THEN /\ Cardinality(qrCodes) < maxTokens
                /\ qrCodes' = createQrCode(qrCodes,
                     qrCodeRow(c, qrCodeData(c, now, randomSuffix(c, now)), now))
                /\ last' = Answer("generate-qr", u, c, None,
                                  qrCodeData(c, now, randomSuffix(c, now)), r)
           ELSE /\ UNCHANGED qrCodes
                /\ last' = Answer("generate-qr", u, c, None, <<>>, r)
      /\ UNCHANGED <<now, users, classes, enrollments, attendance, scan, roleVars>>

GenerateQr == IssueQr(MaxTokens)

\* ---- POST /classes/:id/enroll and DELETE /classes/:id/enroll/:studentId ----
studentProfileExists(sp) == \E u \in DOMAIN users : users[u].studentProfile = sp

\* mutant: the existing enrollment is not looked for
enrollCheckNoExisting(user, classId, studentId) ==
  IF ~authorizeRoles({"ADMIN", "TEACHER"}, user) THEN Forbidden
  ELSE IF classId \notin DOMAIN classes THEN ClassNotFound
  ELSE IF ~studentProfileExists(studentId)
    THEN Resp(404, "Student not found", "The specified student does not exist")
  ELSE Resp(201, "", "")

\* enrollments is a set of (student, class) pairs: the table is unique on
\* studentId_classId
enrollCheck(user, classId, studentId) ==
  IF ~authorizeRoles({"ADMIN", "TEACHER"}, user) THEN Forbidden
  ELSE IF classId \notin DOMAIN classes THEN ClassNotFound
  ELSE IF ~studentProfileExists(studentId)
    THEN Resp(404, "Student not found", "The specified student does not exist")
  ELSE IF <<studentId, classId>> \in enrollments
    THEN Resp(400, "Already enrolled", "Student is already enrolled in this class")
  ELSE Resp(201, "", "")

Enroll ==
  \E u \in EnrollRequesters, c \in ClassIds, sp \in StudentProfileIds :
    LET r == IF authenticateToken(u) # NoResp THEN authenticateToken(u)
             ELSE enrollCheck(users[u], c, sp) IN
      /\ last' = Answer("enroll", u, c, sp, <<>>, r)
      /\ enrollments' = IF r.status = 201 THEN enrollments \cup {<<sp, c>>} ELSE enrollments
      /\ UNCHANGED <<now, users, classes, qrCodes, attendance, scan, roleVars>>

\* prisma.enrollment.delete throws when the row does not exist: caught, 500
unenrollCheck(user, classId, studentId) ==
  IF ~authorizeRoles({"ADMIN", "TEACHER"}, user) THEN Forbidden
  ELSE IF <<studentId, classId>> \notin enrollments
    THEN Resp(500, "Enrollment removal failed", "Failed to remove student from class")
  ELSE Ok200

Unenroll ==
  \E u \in EnrollRequesters, c \in ClassIds \cup {NoClass}, sp \in StudentProfileIds :
    LET r == IF authenticateToken(u) # NoResp THEN authenticateToken(u)
             ELSE unenrollCheck(users[u], c, sp) IN
      /\ last' = Answer("unenroll", u, c, sp, <<>>, r)
      /\ enrollments' = IF r = Ok200 THEN enrollments \ {<<sp, c>>} ELSE enrollments
      /\ UNCHANGED <<now, users, classes, qrCodes, attendance, scan, roleVars>>

\* ---- POST /attendance/scan ----
InvalidQr == Resp(400, "Invalid QR code", "The QR code is not valid")
Expired == Resp(400, "QR code expired", "The QR code has expired")
NotEnrolled == Resp(403, "Access denied", "You are not enrolled in this class")
AlreadyMarked ==
  Resp(400, "Attendance already marked",
       "You have already marked attendance for this class today")
MarkingFailed == Resp(500, "Attendance marking failed", "Failed to mark attendance")

\* a string that is the code of no token
BogusCode == <<NoClass, 0, 0>>

\* prisma.qRCode.findUnique({ where: { code } }): the rows with that code
findQrCode(code) == {q \in qrCodes : q.code = code}

\* mutant: the comparison is inverted
isExpiredInverted(t, qrCodeRecord) == t < qrCodeRecord.expiresAt

\* new Date() > qrCodeRecord.expiresAt
isExpired(t, qrCodeRecord) == t > qrCodeRecord.expiresAt

\* mutant: the hours are not reset, the window starts at the time of the scan
startOfDayRolling(t) == t

\* mutant: the day starts at noon
startOfDayNoon(t) == t - ((t + DayMinutes \div 2) % DayMinutes)

\* today.setHours(0, 0, 0, 0): the local midnight at or before t
startOfDay(t) == t - (t % DayMinutes)

\* mutant: the enrollment is not looked at
isEnrolledUnchecked(studentId, classId) == TRUE

\* prisma.enrollment.findUnique({ where: { studentId_classId } }) returns a row
isEnrolled(studentId, classId) == <<studentId, classId>> \in enrollments

\* mutant: gt for gte, a row dated at the midnight is not found
existingAttendanceStrict(rows, studentId, classId, today) ==
  {a \in BagToSet(rows) :
                /\ a.studentId = studentId
                /\ a.classId = classId
                /\ a.date > today
                /\ a.date < today + DayMinutes}

\* mutant: no date filter, a row of any day is found
existingAttendanceAnyDay(rows, studentId, classId, today) ==
  {a \in BagToSet(rows) : a.studentId = studentId /\ a.classId = classId}

\* mutant: no student filter, a row of any student of the class is found
existingAttendanceAnyStudent(rows, studentId, classId, today) ==
  {a \in BagToSet(rows) :
                /\ a.classId = classId
                /\ a.date >= today
                /\ a.date < today + DayMinutes}

\* prisma.attendance.findFirst: rows of the student and class dated in [today, today + 24h)
existingAttendance(rows, studentId, classId, today) ==
  {a \in BagToSet(rows) :
                /\ a.studentId = studentId
                /\ a.classId = classId
                /\ a.date >= today
                /\ a.date < today + DayMinutes}

\* mutant: the row is dated with the start of the day
attendanceRowAtMidnight(studentId, classId, date, qrCode) ==
  [studentId |-> studentId, classId |-> classId, date |-> date - (date % DayMinutes),
   status |-> "PRESENT", qrCode |-> qrCode]

\* prisma.attendance.create({ data: { studentId, classId, date, status: 'PRESENT', qrCode } })
attendanceRow(studentId, classId, date, qrCode) ==
  [studentId |-> studentId, classId |-> classId, date |-> date,
   status |-> "PRESENT", qrCode |-> qrCode]

\* mutant: an upsert, the row replaces the rows of the student and class
createAttendanceUpsert(rows, row) ==
  [a \in {b \in BagToSet(rows) : b.studentId # row.studentId \/ b.classId # row.classId}
     |-> rows[a]] (+) SetToBag({row})

\* the table after prisma.attendance.create: one more row, the others as they were
createAttendance(rows, row) == rows (+) SetToBag({row})

\* A scan request whose reads have all returned and passed, waiting for
\* attendance.create: the handler's locals at that await
PendingScan(user, studentProfile, qrCode, classId, date) ==
  [user |-> user, studentProfile |-> studentProfile, qrCode |-> qrCode,
   classId |-> classId, date |-> date]

\* mutant: the student profile is read before the token is looked up
scanCheckProfileFirst(user, code, t) ==
  IF ~authorizeRoles({"STUDENT"}, user) THEN Forbidden
  ELSE IF user.studentProfile = None THEN MarkingFailed
  ELSE IF findQrCode(code) = {} THEN InvalidQr
  ELSE LET qrCodeRecord == CHOOSE q \in findQrCode(code) : TRUE IN
    IF isExpired(t, qrCodeRecord) THEN Expired
    ELSE IF ~isEnrolled(user.studentProfile, qrCodeRecord.classId) THEN NotEnrolled
    ELSE IF existingAttendance(attendance, user.studentProfile, qrCodeRecord.classId,
                               startOfDay(t)) # {}
      THEN AlreadyMarked
    ELSE Ok200

\* mutant: the enrollment and the rows of today are looked at before the expiry
scanCheckExpiryLast(user, code, t) ==
  IF ~authorizeRoles({"STUDENT"}, user) THEN Forbidden
  ELSE IF findQrCode(code) = {} THEN InvalidQr
  ELSE LET qrCodeRecord == CHOOSE q \in findQrCode(code) : TRUE IN
    IF user.studentProfile = None THEN MarkingFailed
    ELSE IF ~isEnrolled(user.studentProfile, qrCodeRecord.classId) THEN NotEnrolled
    ELSE IF existingAttendance(attendance, user.studentProfile, qrCodeRecord.classId,
                               startOfDay(t)) # {}
      THEN AlreadyMarked
    ELSE IF isExpired(t, qrCodeRecord) THEN Expired
    ELSE Ok200

\* the checks of the handler, in its order, on the rows the reads return;
\* Ok200 when all pass.  req.user.studentProfile.id throws on a user without
\* a student profile (caught: 500).
scanCheck(user, code, t) ==
  IF ~authorizeRoles({"STUDENT"}, user) THEN Forbidden
  ELSE IF findQrCode(code) = {} THEN InvalidQr
  ELSE LET qrCodeRecord == CHOOSE q \in findQrCode(code) : TRUE IN
    IF isExpired(t, qrCodeRecord) THEN Expired
    ELSE IF user.studentProfile = None THEN MarkingFailed
    ELSE IF ~isEnrolled(user.studentProfile, qrCodeRecord.classId) THEN NotEnrolled
    ELSE IF existingAttendance(attendance, user.studentProfile, qrCodeRecord.classId,
                               startOfDay(t)) # {}
      THEN AlreadyMarked
    ELSE Ok200

\* the class of the token with that code (None when there is no such token)
classOfCode(code) ==
  IF findQrCode(code) = {} THEN None ELSE (CHOOSE q \in findQrCode(code) : TRUE).classId

\* The request arrives; authenticateToken, authorizeRoles('STUDENT') and the
\* reads of the handler (token, enrollment, attendance of today) run.  A
\* failed check answers the request; otherwise the insert is issued.
ScanCheck ==
  /\ BagCardinality(scan) < MaxScans
  /\ \E u \in ScanRequesters, code \in {q.code : q \in qrCodes} \cup {BogusCode} :
       LET r == scanCheck(users[u], code, now) IN
         IF r = Ok200
           THEN /\ scan' = scan (+) SetToBag({PendingScan(u, users[u].studentProfile, code,
                                                          classOfCode(code), now)})
                /\ last' = NoLast
           ELSE /\ last' = Answer("scan", u, classOfCode(code), users[u].studentProfile, code, r)
                /\ UNCHANGED scan
  /\ UNCHANGED <<now, db, roleVars>>

\* attendance.create returns: the row is written and the request answered 200
ScanCreate ==
  /\ \E p \in BagToSet(scan) :
       /\ attendance' = createAttendance(attendance,
            attendanceRow(p.studentProfile, p.classId, p.date, p.qrCode))
       /\ scan' = scan (-) SetToBag({p})
       /\ last' = Answer("scan", p.user, p.classId, p.studentProfile, p.qrCode, Ok200)
  /\ UNCHANGED <<now, users, classes, enrollments, qrCodes, roleVars>>

Next ==
  \/ Tick
  \/ GenerateQr
  \/ Enroll
  \/ Unenroll
  \/ ScanCheck
  \/ ScanCreate

Spec == Init /\ [][Next]_vars

\* ---- requests one after another ----
\* No request overlaps a scan: nothing else runs, and the clock stands, while
\* a scan waits for its insert.  The clock starts 2 * FineSteps minutes before
\* the midnight and is followed minute by minute until FineSteps after it.
SeqT0 == DayMinutes - 2 * FineSteps

SeqInit ==
  /\ now = SeqT0
  /\ users = SeedUsers
  /\ classes = SeedClasses
  /\ enrollments = SeedEnrollments
  /\ qrCodes = {}
  /\ attendance = EmptyBag
  /\ scan = EmptyBag
  /\ last = NoLast
  /\ roleReq = NoRoleReq
  /\ roleSeq = 0
  /\ race = {}

SeqTick == Clock(DayMinutes + FineSteps, ExpiryMinutes - 1)

SeqNext ==
  \/ /\ scan = EmptyBag
     /\ \/ SeqTick
        \/ GenerateQr
        \/ Enroll
        \/ Unenroll
        \/ ScanCheck
  \/ ScanCreate

SeqSpec == SeqInit /\ [][SeqNext]_vars

\* ======================= registry: users, roles, classes =======================
\* a registry request with its response: who asked (the token), about which
\* row, with which body value, and the body of the answer
Reply(op, user, target, arg, resp, body) ==
  [op |-> op, user |-> user, target |-> target, arg |-> arg, resp |-> resp, body |-> body]

\* ---- referential actions of the store ----
\* rows that refer to a student profile go when the profile goes
enrollmentsWithoutStudent(rows, sp) == {e \in rows : e[1] # sp}
attendanceWithoutStudent(rows, sp) ==
  [a \in {b \in BagToSet(rows) : b.studentId # sp} |-> rows[a]]

\* rows that refer to a class
enrollmentsWithoutClasses(rows, cs) == {e \in rows : e[2] \notin cs}
attendanceWithoutClasses(rows, cs) ==
  [a \in {b \in BagToSet(rows) : b.classId \notin cs} |-> rows[a]]
qrCodesWithoutClasses(rows, cs) == {q \in rows : q.classId \notin cs}
classHasRows(c) ==
  \/ \E e \in enrollments : e[2] = c
  \/ \E a \in BagToSet(attendance) : a.classId = c
  \/ \E q \in qrCodes : q.classId = c

\* the classes a teacher profile owns
classesOf(tp) == {c \in DOMAIN classes : tp # None /\ classes[c].teacherId = tp}

\* the store after the profiles sp (student) and tp (teacher) are deleted, the
\* rows of the student and the classes of the teacher going with them
withoutProfiles(sp, tp) ==
  [classes |-> [c \in DOMAIN classes \ classesOf(tp) |-> classes[c]],
   enrollments |-> enrollmentsWithoutClasses(enrollmentsWithoutStudent(enrollments, sp),
                                             classesOf(tp)),
   attendance |-> attendanceWithoutClasses(attendanceWithoutStudent(attendance, sp),
                                           classesOf(tp)),
   qrCodes |-> qrCodesWithoutClasses(qrCodes, classesOf(tp))]

\* ---- DELETE /users/:id ----
UserNotFound == Resp(404, "User not found", "The specified user does not exist")
UserDeletionFailed == Resp(500, "User deletion failed", "Failed to delete user")

DeleteRequesters == {"admin", "s1", NoToken, BadToken}
DeleteTargets == {"s1", "s2", "t1", NoUser}

deleteUserCheck(token, id) ==
  IF middleware(token, {"ADMIN"}) # NoResp THEN middleware(token, {"ADMIN"})
  ELSE IF id \notin DOMAIN users THEN UserNotFound
  ELSE Ok200

\* mutant: the row is kept (a delete that is never issued)
userDeleteKept(rows, id) == rows

\* the user table after prisma.user.delete({ where: { id } })
userDelete(rows, id) == [u \in DOMAIN rows \ {id} |-> rows[u]]

\* The profiles of the user go with the row, and with them the rows that refer
\* to them.  Whether the classes of a teacher go too, or make the delete
\* fail, is decided by the schema: both outcomes are possible here.
DeleteUser ==
  \E token \in DeleteRequesters, id \in DeleteTargets :
    LET r == deleteUserCheck(token, id) IN
      /\ IF r # Ok200
           THEN /\ last' = Reply("delete-user", token, id, None, r, None)
                /\ UNCHANGED db
           ELSE LET w == withoutProfiles(users[id].studentProfile, users[id].teacherProfile) IN
                  \/ /\ users' = userDelete(users, id)
                     /\ classes' = w.classes
                     /\ enrollments' = w.enrollments
                     /\ attendance' = w.attendance
                     /\ qrCodes' = w.qrCodes
                     /\ last' = Reply("delete-user", token, id, None, Ok200, None)
                  \/ /\ classesOf(users[id].teacherProfile) # {}
                     /\ last' = Reply("delete-user", token, id, None, UserDeletionFailed, None)
                     /\ UNCHANGED db
      /\ UNCHANGED <<now, scan, roleVars>>

\* ---- PATCH /users/:id/role ----
Roles == {"STUDENT", "TEACHER", "ADMIN"}

RoleRequesters == {"admin", "t2"}
RoleTargets == {"s1", "t1", NoUser}
RoleInputs == Roles \cup {"GUEST"}

ValidationError == Resp(400, "Validation error", "")
RoleUpdateFailed == Resp(500, "User role update failed", "Failed to update user role")

\* the checks before the first write: middleware, body('role').isIn, findUnique
roleChangeCheck(token, id, role) ==
  IF middleware(token, {"ADMIN"}) # NoResp THEN middleware(token, {"ADMIN"})
  ELSE IF role \notin Roles THEN ValidationError
  ELSE IF id \notin DOMAIN users THEN UserNotFound
  ELSE Ok200

\* mutant: the old profiles are left in place
deleteProfilesKept(user) == user

\* "Delete existing profiles": studentProfile, teacherProfile, adminProfile
deleteProfiles(user) ==
  [user EXCEPT !.studentProfile = None, !.teacherProfile = None, !.adminProfile = None]

\* mutant: a student profile whatever the role
createProfileStudent(user, role, id) == [user EXCEPT !.studentProfile = id]

\* "Create new profile based on role"
createProfile(user, role, id) ==
  CASE role = "STUDENT" -> [user EXCEPT !.studentProfile = id]
    [] role = "TEACHER" -> [user EXCEPT !.teacherProfile = id]
    [] role = "ADMIN"   -> [user EXCEPT !.adminProfile = id]

\* the profile of that kind the user has (unique on userId)
profileOfRole(user, role) ==
  CASE role = "STUDENT" -> user.studentProfile
    [] role = "TEACHER" -> user.teacherProfile
    [] role = "ADMIN"   -> user.adminProfile

\* the id the store gives the profile of the seq-th request
newProfileId(seq) == "np" \o ToString(seq)

\* The request arrives and is checked; the existing profiles are deleted (with
\* the rows that refer to them; for the classes of a teacher see DeleteUser).
\* One role change runs at a time; other requests run between its writes.
RoleChangeStart ==
  /\ roleReq = NoRoleReq
  /\ \E token \in RoleRequesters, id \in RoleTargets, role \in RoleInputs :
       LET r == roleChangeCheck(token, id, role) IN
         IF r # Ok200
           THEN /\ last' = Reply("role", token, id, role, r, None)
                /\ UNCHANGED <<db, roleVars>>
           ELSE LET w == withoutProfiles(users[id].studentProfile, users[id].teacherProfile) IN
                  \/ /\ roleSeq < MaxRoleChanges
                     /\ users' = [users EXCEPT ![id] = deleteProfiles(@)]
                     /\ classes' = w.classes
                     /\ enrollments' = w.enrollments
                     /\ attendance' = w.attendance
                     /\ qrCodes' = w.qrCodes
                     /\ roleReq' = [pc |-> "update", user |-> token, id |-> id, role |-> role,
                                    old |-> users[id].role, seq |-> roleSeq + 1]
                     /\ roleSeq' = roleSeq + 1
                     /\ UNCHANGED race
                     /\ last' = NoLast
                  \/ /\ classesOf(users[id].teacherProfile) # {}
                     /\ last' = Reply("role", token, id, role, RoleUpdateFailed, None)
                     /\ UNCHANGED <<db, roleVars>>
  /\ UNCHANGED <<now, scan>>

\* prisma.user.update({ where: { id }, data: { role } }); it throws when the
\* user has been deleted meanwhile
RoleChangeUpdate ==
  /\ roleReq.pc = "update"
  /\ IF roleReq.id \in DOMAIN users
       THEN /\ users' = [users EXCEPT ![roleReq.id].role = roleReq.role]
            /\ roleReq' = [roleReq EXCEPT !.pc = "create"]
            /\ last' = NoLast
       ELSE /\ roleReq' = NoRoleReq
            /\ last' = Reply("role", roleReq.user, roleReq.id, roleReq.role, RoleUpdateFailed, None)
            /\ UNCHANGED users
  /\ UNCHANGED <<now, classes, enrollments, qrCodes, attendance, scan, roleSeq, race>>

\* the create of the new profile; it throws when the user is gone or has a
\* profile of that kind already
RoleChangeCreate ==
  /\ roleReq.pc = "create"
  /\ roleReq' = NoRoleReq
  /\ IF roleReq.id \in DOMAIN users /\ profileOfRole(users[roleReq.id], roleReq.role) = None
       THEN /\ users' = [users EXCEPT
                           ![roleReq.id] = createProfile(@, roleReq.role, newProfileId(roleReq.seq))]
            /\ last' = Reply("role", roleReq.user, roleReq.id, roleReq.role, Ok200,
                             [id |-> roleReq.id, role |-> roleReq.role])
       ELSE /\ last' = Reply("role", roleReq.user, roleReq.id, roleReq.role, RoleUpdateFailed, None)
            /\ UNCHANGED users
  /\ UNCHANGED <<now, classes, enrollments, qrCodes, attendance, scan, roleSeq, race>>

\* the store fails the awaited write (or the process stops there): the
\* request ends in the catch block, what it has written stays
RoleChangeFail ==
  /\ roleReq.pc \in {"update", "create"}
  /\ roleReq' = NoRoleReq
  /\ last' = Reply("role", roleReq.user, roleReq.id, roleReq.role, RoleUpdateFailed, None)
  /\ UNCHANGED <<now, db, scan, roleSeq, race>>

\* ---- PATCH /users/:id/role, several requests at once ----
\* Each awaited storage call of the handler is a step of its own: the
\* findUnique, every profile delete, the update of the role, the create.
\* race is the set of the requests between two of their calls, each with the
\* profiles its findUnique has seen.  The users whose role is changed here
\* own no class.
RaceTargets == {"s1", "t2"}

\* the kinds of profile (named by their role) the row of the user includes
profilesSeen(user) == {r \in Roles : profileOfRole(user, r) # None}

\* the deletes are issued in the order student, teacher, admin
nextDelete(seen) ==
  IF "STUDENT" \in seen THEN "STUDENT"
  ELSE IF "TEACHER" \in seen THEN "TEACHER"
  ELSE "ADMIN"

\* prisma.<kind>Profile.delete({ where: { userId: id } })
deleteProfile(user, kind) ==
  CASE kind = "STUDENT" -> [user EXCEPT !.studentProfile = None]
    [] kind = "TEACHER" -> [user EXCEPT !.teacherProfile = None]
    [] kind = "ADMIN"   -> [user EXCEPT !.adminProfile = None]

\* the request q after its step, at the call pc
RaceAt(q, pc, seen) == [q EXCEPT !.pc = pc, !.seen = seen]

\* the request arrives and is checked; findUnique returns the user row
RaceFind ==
  /\ \E token \in RoleRequesters, id \in RaceTargets, role \in Roles :
       LET r == roleChangeCheck(token, id, role) IN
         IF r # Ok200
           THEN /\ last' = Reply("role", token, id, role, r, None)
                /\ UNCHANGED <<roleSeq, race>>
           ELSE /\ roleSeq < MaxRoleChanges
                /\ roleSeq' = roleSeq + 1
                /\ race' = race \cup
                     {[pc |-> IF profilesSeen(users[id]) = {} THEN "update" ELSE "delete",
                       user |-> token, id |-> id, role |-> role,
                       seen |-> profilesSeen(users[id]), seq |-> roleSeq + 1]}
                /\ last' = NoLast
  /\ UNCHANGED <<now, db, scan, roleReq>>

\* one profile delete; it throws when another request has deleted the
\* profile since the findUnique
RaceDelete ==
  /\ \E q \in race :
       /\ q.pc = "delete"
       /\ LET kind == nextDelete(q.seen) IN
            IF profileOfRole(users[q.id], kind) = None
              THEN /\ race' = race \ {q}
                   /\ last' = Reply("role", q.user, q.id, q.role, RoleUpdateFailed, None)
                   /\ UNCHANGED db
              ELSE LET w == withoutProfiles(
                              IF kind = "STUDENT" THEN users[q.id].studentProfile ELSE None,
                              IF kind = "TEACHER" THEN users[q.id].teacherProfile ELSE None)
                   IN /\ users' = [users EXCEPT ![q.id] = deleteProfile(@, kind)]
                      /\ classes' = w.classes
                      /\ enrollments' = w.enrollments
                      /\ attendance' = w.attendance
                      /\ qrCodes' = w.qrCodes
                      /\ race' = (race \ {q}) \cup
                           {RaceAt(q, IF q.seen = {kind} THEN "update" ELSE "delete",
                                   q.seen \ {kind})}
                      /\ last' = NoLast
  /\ UNCHANGED <<now, scan, roleReq, roleSeq>>

RaceUpdate ==
  /\ \E q \in race :
       /\ q.pc = "update"
       /\ users' = [users EXCEPT ![q.id].role = q.role]
       /\ race' = (race \ {q}) \cup {RaceAt(q, "create", q.seen)}
       /\ last' = NoLast
  /\ UNCHANGED <<now, classes, enrollments, qrCodes, attendance, scan, roleReq, roleSeq>>

\* the create throws when the user has a profile of that kind (userId is
\* unique in each profile table)
RaceCreate ==
  /\ \E q \in race :
       /\ q.pc = "create"
       /\ race' = race \ {q}
       /\ IF profileOfRole(users[q.id], q.role) = None
            THEN /\ users' = [users EXCEPT
                                ![q.id] = createProfile(@, q.role, newProfileId(q.seq))]
                 /\ last' = Reply("role", q.user, q.id, q.role, Ok200,
                                  [id |-> q.id, role |-> q.role])
            ELSE /\ last' = Reply("role", q.user, q.id, q.role, RoleUpdateFailed, None)
                 /\ UNCHANGED users
  /\ UNCHANGED <<now, classes, enrollments, qrCodes, attendance, scan, roleReq, roleSeq>>

RaceNext ==
  \/ RaceFind
  \/ RaceDelete
  \/ RaceUpdate
  \/ RaceCreate

\* ---- PUT /classes/:id and DELETE /classes/:id ----
ClassUpdateFailed == Resp(500, "Class update failed", "Failed to update class")
ClassDeletionFailed == Resp(500, "Class deletion failed", "Failed to delete class")

ClassRequesters == {"admin", "t1"}
\* the teacherId of the body: absent, empty, or the id of a profile
TeacherIdInputs == {None, "", "tp1", "tp2", NoTeacher}

teacherProfileExists(tp) == \E u \in DOMAIN users : users[u].teacherProfile = tp

\* prisma.class.update throws when there is no class with that id, or no
\* teacher profile with the new teacherId
updateClassCheck(token, id, teacherId) ==
  IF middleware(token, {"ADMIN"}) # NoResp THEN middleware(token, {"ADMIN"})
  ELSE IF teacherId = "" THEN ValidationError
  ELSE IF id \notin DOMAIN classes THEN ClassUpdateFailed
  ELSE IF teacherId # None /\ ~teacherProfileExists(teacherId) THEN ClassUpdateFailed
  ELSE Ok200

\* mutant: the enrollments of the class are dropped with the change of teacher
classUpdateReset(rows, id, teacherId) ==
  [enrollments |-> IF teacherId = None THEN rows.enrollments
                   ELSE enrollmentsWithoutClasses(rows.enrollments, {id}),
   classes |-> [rows.classes EXCEPT ![id].teacherId = IF teacherId = None THEN @ ELSE teacherId]]

\* the class and enrollment tables after prisma.class.update({ where: { id }, data })
classUpdate(rows, id, teacherId) ==
  [enrollments |-> rows.enrollments,
   classes |-> [rows.classes EXCEPT ![id].teacherId = IF teacherId = None THEN @ ELSE teacherId]]

UpdateClass ==
  \E token \in ClassRequesters, id \in ClassIds \cup {NoClass}, teacherId \in TeacherIdInputs :
    LET r == updateClassCheck(token, id, teacherId)
        w == classUpdate([classes |-> classes, enrollments |-> enrollments], id, teacherId)
    IN
      /\ last' = Reply("update-class", token, id, teacherId, r,
                       IF r = Ok200 THEN w.classes[id] ELSE None)
      /\ classes' = IF r = Ok200 THEN w.classes ELSE classes
      /\ enrollments' = IF r = Ok200 THEN w.enrollments ELSE enrollments
      /\ UNCHANGED <<now, users, qrCodes, attendance, scan, roleVars>>

deleteClassCheck(token, id) ==
  IF middleware(token, {"ADMIN"}) # NoResp THEN middleware(token, {"ADMIN"})
  ELSE IF id \notin DOMAIN classes THEN ClassDeletionFailed
  ELSE Ok200

\* Whether the rows that refer to the class go with it, or make the delete
\* fail, is decided by the schema: both outcomes are possible here.
DeleteClass ==
  \E token \in ClassRequesters, id \in ClassIds \cup {NoClass} :
    LET r == deleteClassCheck(token, id) IN
      /\ IF r # Ok200
           THEN /\ last' = Reply("delete-class", token, id, None, r, None)
                /\ UNCHANGED db
           ELSE \/ /\ classes' = [c \in DOMAIN classes \ {id} |-> classes[c]]
                   /\ enrollments' = enrollmentsWithoutClasses(enrollments, {id})
                   /\ attendance' = attendanceWithoutClasses(attendance, {id})
                   /\ qrCodes' = qrCodesWithoutClasses(qrCodes, {id})
                   /\ last' = Reply("delete-class", token, id, None, Ok200, None)
                   /\ UNCHANGED users
                \/ /\ classHasRows(id)
                   /\ last' = Reply("delete-class", token, id, None, ClassDeletionFailed, None)
                   /\ UNCHANGED db
      /\ UNCHANGED <<now, scan, roleVars>>

\* ---- PUT /users/:id ----
UserUpdateFailed == Resp(500, "User update failed", "Failed to update user")
NotOwnProfile == Resp(403, "Access denied", "You can only update your own profile")

UpdateUserRequesters == {"admin", "s1"}
UpdateUserTargets == {"s1", "s2", NoUser}
\* the fields a request body may carry, with the values tried for each: a
\* name that is too short and one that is not, a role, a password
BodyValues ==
  [name |-> {"x", "Alice"}, role |-> {"ADMIN"}, password |-> {"secret"}]
BodyInputs ==
  UNION {[fields -> UNION {BodyValues[f] : f \in DOMAIN BodyValues}] :
           fields \in SUBSET DOMAIN BodyValues}
ShapedBodies == {b \in BodyInputs : \A f \in DOMAIN b : b[f] \in BodyValues[f]}

\* body('name').optional().trim().isLength({ min: 2 })
validName(body) == "name" \in DOMAIN body => Len(body.name) >= 2

\* mutant: the role is left in the update data
updateDataWithRole(body) == [f \in DOMAIN body \ {"password"} |-> body[f]]

\* updateData: the body without password and role
updateData(body) == [f \in DOMAIN body \ {"password", "role"} |-> body[f]]

\* the row after prisma.user.update({ where: { id }, data })
userUpdate(row, data) ==
  [f \in DOMAIN row |-> IF f \in DOMAIN data THEN data[f] ELSE row[f]]

updateUserCheck(token, id, body) ==
  IF authenticateToken(token) # NoResp THEN authenticateToken(token)
  ELSE IF ~validName(body) THEN ValidationError
  ELSE IF users[token].role # "ADMIN" /\ token # id THEN NotOwnProfile
  ELSE IF id \notin DOMAIN users THEN UserUpdateFailed
  ELSE Ok200

UpdateUser ==
  \E token \in UpdateUserRequesters, id \in UpdateUserTargets, body \in ShapedBodies :
    LET r == updateUserCheck(token, id, body) IN
      /\ last' = Reply("update-user", token, id, body, r, None)
      /\ users' = IF r = Ok200
                    THEN [users EXCEPT ![id] = userUpdate(@, updateData(body))]
                    ELSE users
      /\ UNCHANGED <<now, classes, enrollments, qrCodes, attendance, scan, roleVars>>

\* ---- GET /users/:id ----
NotOwnProfileView == Resp(403, "Access denied", "You can only view your own profile")

\* the user in the response: the row without its password
userWithoutPassword(row) == [f \in DOMAIN row \ {"password"} |-> row[f]]

getUserCheck(token, id) ==
  IF authenticateToken(token) # NoResp THEN authenticateToken(token)
  ELSE IF users[token].role # "ADMIN" /\ token # id THEN NotOwnProfileView
  ELSE IF id \notin DOMAIN users THEN UserNotFound
  ELSE Ok200

GetUser ==
  \E token \in UpdateUserRequesters, id \in UpdateUserTargets :
    LET r == getUserCheck(token, id) IN
      /\ last' = Reply("get-user", token, id, None, r,
                       IF r = Ok200 THEN userWithoutPassword(users[id]) ELSE None)
      /\ UNCHANGED <<now, db, scan, roleVars>>

\* ---- GET /attendance/class/:classId ----
NotOwnClassView ==
  Resp(403, "Access denied", "You can only view attendance for your own classes")

Statuses == {"PRESENT", "ABSENT", "LATE"}

\* the instant the sample rows were written: noon of the second day
SeedTime == DayMinutes + DayMinutes \div 2

\* a sample row: none of them carries a token string
sampleRow(studentId, classId, date, status) ==
  [studentId |-> studentId, classId |-> classId, date |-> date,
   status |-> status, qrCode |-> <<>>]

\* "Create some sample attendance records": rows of today and of yesterday
SeedAttendance ==
  SetToBag({sampleRow("sp1", "c1", SeedTime, "LATE"),
            sampleRow("sp2", "c1", SeedTime, "ABSENT"),
            sampleRow("sp1", "c1", SeedTime - DayMinutes, "PRESENT"),
            sampleRow("sp2", "c1", SeedTime - DayMinutes, "PRESENT")})

ReportRequesters == {"admin", "t1", "t2", "s1"}
\* the date of the query (the instant new Date(date) denotes), NoDate when absent
NoDate == -1
DateInputs == {NoDate, SeedTime - DayMinutes, SeedTime + 1, SeedTime + DayMinutes}

\* mutant: every teacher may read the attendance of every class
classAttendanceCheckAnyTeacher(token, classId) ==
  IF middleware(token, {"TEACHER", "ADMIN"}) # NoResp
    THEN middleware(token, {"TEACHER", "ADMIN"})
  ELSE IF classId \notin DOMAIN classes THEN ClassNotFound
  ELSE Ok200

\* the checks before the rows are read
classAttendanceCheck(token, classId) ==
  IF middleware(token, {"TEACHER", "ADMIN"}) # NoResp
    THEN middleware(token, {"TEACHER", "ADMIN"})
  ELSE IF classId \notin DOMAIN classes THEN ClassNotFound
  ELSE IF ~teacherOwnsClass(users[token], classes[classId]) THEN NotOwnClassView
  ELSE Ok200

\* targetDate: the date of the query, or now, with the hours set to zero
targetDate(date, t) == startOfDay(IF date = NoDate THEN t ELSE date)

\* mutant: no date filter
attendancesAnyDay(rows, classId, target) == {a \in BagToSet(rows) : a.classId = classId}

\* prisma.attendance.findMany: rows of the class dated in [target, target + 24h)
attendancesOn(rows, classId, target) ==
  {a \in BagToSet(rows) :
     a.classId = classId /\ a.date >= target /\ a.date < target + DayMinutes}

\* prisma.enrollment.findMany({ where: { classId } }): the students enrolled
enrolledIn(classId) == {e[1] : e \in {x \in enrollments : x[2] = classId}}

\* attendances.find(a => a.studentId === enrollment.studentId): the status of
\* a row found for the student, 'ABSENT' when there is none
statusesOf(found, studentId) ==
  IF {a \in found : a.studentId = studentId} = {} THEN {"ABSENT"}
  ELSE {a.status : a \in {b \in found : b.studentId = studentId}}

\* summary: the entries counted, and counted by status
summaryOf(entries) ==
  [total |-> Cardinality(DOMAIN entries),
   present |-> Cardinality({sp \in DOMAIN entries : entries[sp] = "PRESENT"}),
   absent |-> Cardinality({sp \in DOMAIN entries : entries[sp] = "ABSENT"}),
   late |-> Cardinality({sp \in DOMAIN entries : entries[sp] = "LATE"})]

\* entries is the attendance list of the answer: the status by student
ClassAttendance ==
  \E token \in ReportRequesters, classId \in ClassIds \cup {NoClass}, date \in DateInputs :
    LET r == classAttendanceCheck(token, classId) IN
      /\ IF r # Ok200
           THEN last' = Reply("class-attendance", token, classId, date, r, None)
           ELSE \E entries \in [enrolledIn(classId) -> Statuses] :
                  /\ \A sp \in enrolledIn(classId) :
                       entries[sp] \in statusesOf(attendancesOn(attendance, classId,
                                                                targetDate(date, now)), sp)
                  /\ last' = Reply("class-attendance", token, classId, date, r,
                                   [date |-> targetDate(date, now), attendance |-> entries,
                                    summary |-> summaryOf(entries)])
      /\ UNCHANGED <<now, db, scan, roleVars>>

\* ---- the registry requests on the seeded database ----
\* Both students are enrolled in the class and the sample rows are there; the
\* clock stands at the time of the seeding.
AdminInit ==
  /\ now = SeedTime
  /\ users = SeedUsers
  /\ classes = SeedClasses
  /\ enrollments = SeedEnrollments \cup {<<"sp2", "c1">>}
  /\ qrCodes = {}
  /\ attendance = SeedAttendance
  /\ scan = EmptyBag
  /\ last = NoLast
  /\ roleReq = NoRoleReq
  /\ roleSeq = 0
  /\ race = {}

AdminNext ==
  \/ Enroll
  \/ Unenroll
  \/ DeleteUser
  \/ UpdateClass
  \/ DeleteClass
  \/ UpdateUser
  \/ GetUser
  \/ ClassAttendance

AdminSpec == AdminInit /\ [][AdminNext]_vars

\* ---- role changes on the seeded database ----
\* Users are deleted between the writes of a role change.
RoleNext ==
  \/ RoleChangeStart
  \/ RoleChangeUpdate
  \/ RoleChangeCreate
  \/ RoleChangeFail
  \/ DeleteUser

RoleSpec == AdminInit /\ [][RoleNext]_vars

\* ---- role changes at once on the seeded database ----
RaceSpec == AdminInit /\ [][RaceNext]_vars

\* ---- GET /dashboard/teacher and GET /dashboard/admin ----
DashboardFailed(what) == Resp(500, "Dashboard retrieval failed", what)

DashboardRequesters == {"admin", "t1", "t2"}

\* the rows of the class dated today, as many as the table holds
todayAttendance(rows, classId, today) ==
  [a \in {b \in BagToSet(rows) : /\ b.classId = classId
                                 /\ b.date >= today
                                 /\ b.date < today + DayMinutes} |-> rows[a]]

\* todayAttendance.filter(a => a.status === 'PRESENT').length
presentCount(rows) ==
  BagCardinality([a \in {b \in BagToSet(rows) : b.status = "PRESENT"} |-> rows[a]])

\* Math.round(x * 100) / 100 for x = present / total * 100, in hundredths
percentageX100(present, total) ==
  IF total > 0 THEN (2 * present * 10000 + total) \div (2 * total) ELSE 0

\* the entry of one class in classAttendanceSummary
classSummary(classId, t) ==
  LET totalStudents == Cardinality({e \in enrollments : e[2] = classId})
      presentStudents == presentCount(todayAttendance(attendance, classId, startOfDay(t)))
  IN [totalStudents |-> totalStudents,
      presentStudents |-> presentStudents,
      absentStudents |-> totalStudents - presentStudents,
      attendancePercentage |-> percentageX100(presentStudents, totalStudents)]

\* the classes of the teacher; req.user.teacherProfile.id throws on a user
\* without a teacher profile (caught: 500)
TeacherDashboard ==
  /\ \E token \in DashboardRequesters :
       LET r == IF middleware(token, {"TEACHER"}) # NoResp THEN middleware(token, {"TEACHER"})
                ELSE IF users[token].teacherProfile = None
                  THEN DashboardFailed("Failed to retrieve teacher dashboard data")
                ELSE Ok200
       IN last' = Reply("teacher-dashboard", token, None, None, r,
                        IF r = Ok200
                          THEN [c \in classesOf(users[token].teacherProfile) |->
                                  classSummary(c, now)]
                          ELSE None)
  /\ UNCHANGED <<now, db, scan, roleVars>>

\* every class
AdminDashboard ==
  /\ \E token \in DashboardRequesters :
       LET r == IF middleware(token, {"ADMIN"}) # NoResp THEN middleware(token, {"ADMIN"})
                ELSE Ok200
       IN last' = Reply("admin-dashboard", token, None, None, r,
                        IF r = Ok200
                          THEN [c \in DOMAIN classes |-> classSummary(c, now)]
                          ELSE None)
  /\ UNCHANGED <<now, db, scan, roleVars>>

\* the dashboards between the enrollments and the scans
DashNext ==
  \/ GenerateQr
  \/ Enroll
  \/ Unenroll
  \/ ScanCheck
  \/ ScanCreate
  \/ TeacherDashboard
  \/ AdminDashboard

DashSpec == Init /\ [][DashNext]_vars

\* ---- PUT /schedule/update ----
NotOwnSchedule ==
  Resp(403, "Access denied", "You can only update schedules for your own classes")
ScheduleUpdateFailed ==
  Resp(500, "Schedule update failed", "Failed to update class schedule")

ScheduleRequesters == {"admin", "t1", "t2", "s1"}
\* the schedule of the body: empty, or a timetable
ScheduleInputs == {"", "mon"}

\* req.user.teacherProfile.id throws on a TEACHER without a teacher profile
\* (caught: 500)
updateScheduleCheck(token, classId, schedule) ==
  IF middleware(token, {"ADMIN", "TEACHER"}) # NoResp
    THEN middleware(token, {"ADMIN", "TEACHER"})
  ELSE IF schedule = "" THEN ValidationError
  ELSE IF classId \notin DOMAIN classes THEN ClassNotFound
  ELSE IF users[token].role = "TEACHER" /\ users[token].teacherProfile = None
    THEN ScheduleUpdateFailed
  ELSE IF users[token].role = "TEACHER"
          /\ classes[classId].teacherId # users[token].teacherProfile
    THEN NotOwnSchedule
  ELSE Ok200

UpdateSchedule ==
  /\ \E token \in ScheduleRequesters, c \in ClassIds \cup {NoClass}, schedule \in ScheduleInputs :
       LET r == updateScheduleCheck(token, c, schedule) IN
         /\ last' = Answer("update-schedule", token, c, None, <<>>, r)
         /\ classes' = IF r = Ok200
                         THEN [classes EXCEPT ![c].schedule = jsonStringify(schedule)]
                         ELSE classes
  /\ UNCHANGED <<now, users, enrollments, qrCodes, attendance, scan, roleVars>>

\* what teachers, the owner of the class and another, ask about a class
OwnerNext ==
  \/ GenerateQr
  \/ Enroll
  \/ Unenroll
  \/ UpdateSchedule

OwnerSpec == Init /\ [][OwnerNext]_vars

\* ---- scans by users a role change has left without a profile ----
\* Requests run one after another, except that the writes of a role change
\* are apart: scans and token issues run between them.
TornNext ==
  \/ /\ scan = EmptyBag
     /\ \/ Tick
        \/ GenerateQr
        \/ ScanCheck
        \/ RoleChangeStart
        \/ RoleChangeUpdate
        \/ RoleChangeCreate
        \/ RoleChangeFail
  \/ ScanCreate

TornSpec == Init /\ [][TornNext]_vars

\* ---- several tokens of one class ----
\* one token more than elsewhere
GenerateQrAgain == IssueQr(MaxTokens + 1)

\* requests one after another, from the seeded enrollment
TokenNext ==
  \/ /\ scan = EmptyBag
     /\ \/ Tick
        \/ GenerateQrAgain
        \/ ScanCheck
  \/ ScanCreate

TokenSpec == Init /\ [][TokenNext]_vars

\* ---- isOwnerOrAdmin ----
AuthenticationRequired == Unauthorized("Authentication required")
NotOwnResource == Resp(403, "Access denied", "You can only access your own resources")

\* the route parameters a guarded route may name
ParamNames == {"userId", "id"}

\* mutant: the field is not looked at, the default 'userId' is compared
isOwnerOrAdminDefault(field, reqUser, params) ==
  IF reqUser = None THEN AuthenticationRequired
  ELSE IF users[reqUser].role = "ADMIN" THEN NoResp
  ELSE IF params["userId"] = reqUser THEN NoResp
  ELSE NotOwnResource

\* isOwnerOrAdmin(resourceUserIdField): the answer it sends, or NoResp when it
\* calls next(); reqUser is req.user.id, None when req.user is not set
isOwnerOrAdmin(field, reqUser, params) ==
  IF reqUser = None THEN AuthenticationRequired
  ELSE IF users[reqUser].role = "ADMIN" THEN NoResp
  ELSE IF params[field] = reqUser THEN NoResp
  ELSE NotOwnResource

\* a request to a route [isOwnerOrAdmin(field), handler]: the handler runs,
\* and answers 200, when the middleware calls next()
OwnerGate ==
  /\ \E reqUser \in UserIds \cup {None}, field \in ParamNames, params \in [ParamNames -> UserIds] :
       LET r == isOwnerOrAdmin(field, reqUser, params) IN
         last' = Reply("owner-gate", reqUser, field, params,
                       IF r = NoResp THEN Ok200 ELSE r, r = NoResp)
  /\ UNCHANGED <<now, db, scan, roleVars>>

GateNext == OwnerGate

GateSpec == AdminInit /\ [][GateNext]_vars

\* ---- storage calls that throw ----
\* the awaited reads of a scan request, authenticateToken's first
ScanReads == {"user.findUnique", "qRCode.findUnique", "enrollment.findUnique",
              "attendance.findFirst"}

\* the request gets as far as that read
reachesRead(call, user, code, t) ==
  CASE call = "user.findUnique" -> TRUE
    [] call = "qRCode.findUnique" -> authorizeRoles({"STUDENT"}, user)
    [] call = "enrollment.findUnique" ->
         scanCheck(user, code, t) \in {NotEnrolled, AlreadyMarked, Ok200}
    [] call = "attendance.findFirst" -> scanCheck(user, code, t) \in {AlreadyMarked, Ok200}

\* the answer of the catch block around the read that throws: the one of
\* authenticateToken, or the one of the handler
thrownIn(call) ==
  IF call = "user.findUnique" THEN Unauthorized("Invalid token") ELSE MarkingFailed

\* a read of a scan request throws: the request ends in the catch block
ScanThrows ==
  /\ \E u \in ScanRequesters, code \in {q.code : q \in qrCodes} \cup {BogusCode},
        call \in ScanReads :
       /\ reachesRead(call, users[u], code, now)
       /\ last' = Reply("scan-throws", u, code, call, thrownIn(call), None)
  /\ UNCHANGED <<now, db, scan, roleVars>>

\* attendance.create throws: no row is written, the request is answered 500
ScanCreateThrows ==
  /\ \E p \in BagToSet(scan) :
       /\ scan' = scan (-) SetToBag({p})
       /\ last' = Reply("scan-throws", p.user, p.qrCode, "attendance.create",
                        thrownIn("attendance.create"), None)
  /\ UNCHANGED <<now, db, roleVars>>

ThrowNext ==
  \/ GenerateQr
  \/ Enroll
  \/ ScanCheck
  \/ ScanCreate
  \/ ScanThrows
  \/ ScanCreateThrows

ThrowSpec == Init /\ [][ThrowNext]_vars

\* ======================= properties =======================
\* the calendar day of an instant
DayOf(t) == t \div DayMinutes

HasToken(code) == \E q \in qrCodes : q.code = code
TokenOf(code) == CHOOSE q \in qrCodes : q.code = code
\* the instant in the token string: the time the token was issued
IssuedAt(code) == code[2]
IsStudent(u) == users[u].role = "STUDENT"
ProfileOf(u) == users[u].studentProfile
Enrolled(sp, c) == <<sp, c>> \in enrollments
RowsOf(sp, c) == {a \in BagToSet(attendance) : a.studentId = sp /\ a.classId = c}
\* the student has an attendance row of the class dated on the day of t
MarkedOn(sp, c, t) == \E a \in RowsOf(sp, c) : DayOf(a.date) = DayOf(t)

\* this step is a scan request by u with code arriving and being refused
ScanRefused(u, code) ==
  /\ last'.op = "scan" /\ scan' = scan
  /\ last'.user = u /\ last'.qrCode = code
\* this step is a scan request by u with code arriving and passing its checks
ScanAccepted(u, code) ==
  \E p \in BagToSet(scan') :
    /\ scan' = scan (+) SetToBag({p})
    /\ p.user = u /\ p.qrCode = code
ScanArrives(u, code) == ScanRefused(u, code) \/ ScanAccepted(u, code)
\* this step is the insert of the pending scan p returning
ScanCompletes(p) == scan = scan' (+) SetToBag({p})

Codes == {q.code : q \in qrCodes}

\* C1: at most one attendance row per (student, class, calendar day) in every
\* reachable state, also when scans of one student are in flight together.
CexC1_AtMostOnePerDay ==
  \A a \in BagToSet(attendance) :
    /\ CopiesIn(a, attendance) = 1
    /\ \A b \in BagToSet(attendance) :
         (a.studentId = b.studentId /\ a.classId = b.classId
            /\ DayOf(a.date) = DayOf(b.date)) => a = b

\* C2 as stated: with requests one after another, a scan by a student with an
\* unexpired token of class C is refused with AlreadyMarked whenever the
\* student has a row of C dated today, and the rows are unchanged.
CexC2_AlreadyMarked ==
  [][\A u \in UserIds, code \in Codes :
       (/\ ScanArrives(u, code)
        /\ IsStudent(u)
        /\ now <= TokenOf(code).expiresAt
        /\ MarkedOn(ProfileOf(u), TokenOf(code).classId, now))
       => (last'.resp = AlreadyMarked /\ ScanRefused(u, code)
           /\ attendance' = attendance)]_vars

\* C2 amended: the same for a student who is enrolled in the class (a student
\* removed from the class after checking in is refused with NotEnrolled).
ThmC2_AlreadyMarkedEnrolled ==
  [][\A u \in UserIds, code \in Codes :
       (/\ ScanArrives(u, code)
        /\ IsStudent(u)
        /\ now <= TokenOf(code).expiresAt
        /\ Enrolled(ProfileOf(u), TokenOf(code).classId)
        /\ MarkedOn(ProfileOf(u), TokenOf(code).classId, now))
       => (last'.resp = AlreadyMarked /\ ScanRefused(u, code)
           /\ attendance' = attendance)]_vars

\* an enrolled student, marked today, has just been refused with AlreadyMarked
WitC2 ==
  /\ last.op = "scan" /\ last.resp = AlreadyMarked
  /\ Enrolled(last.studentId, last.classId)
  /\ MarkedOn(last.studentId, last.classId, now)
  /\ BagCardinality(attendance) = 1

\* C3: a scan of an existing token at a time after its expiresAt is refused
\* with Expired and creates no row, whatever the student's enrollment or
\* attendance; no row is ever dated after the expiry of its token.
ThmC3_Expired ==
  [][/\ \A u \in UserIds, code \in Codes :
          (ScanArrives(u, code) /\ IsStudent(u) /\ now > TokenOf(code).expiresAt)
          => (last'.resp = Expired /\ ScanRefused(u, code)
              /\ attendance' = attendance)
     /\ \A a \in BagToSet(attendance') :
          HasToken(a.qrCode) => a.date <= TokenOf(a.qrCode).expiresAt]_vars

\* an enrolled, unmarked student has just been refused with Expired
WitC3 ==
  /\ last.op = "scan" /\ last.resp = Expired
  /\ HasToken(last.qrCode) /\ now > TokenOf(last.qrCode).expiresAt
  /\ Enrolled(last.studentId, last.classId)
  /\ RowsOf(last.studentId, last.classId) = {}

\* C4 as stated: a scan by a student with no enrollment in the class of the
\* token is refused with NotEnrolled and creates no row.
CexC4_NotEnrolled ==
  [][\A u \in UserIds, code \in Codes :
       (/\ ScanArrives(u, code)
        /\ IsStudent(u) /\ ProfileOf(u) # None
        /\ ~Enrolled(ProfileOf(u), TokenOf(code).classId))
       => (last'.resp = NotEnrolled /\ ScanRefused(u, code)
           /\ attendance' = attendance)]_vars

\* C4 amended: the same when the token has not expired (with an expired token
\* the refusal is Expired).
ThmC4_NotEnrolledActive ==
  [][\A u \in UserIds, code \in Codes :
       (/\ ScanArrives(u, code)
        /\ IsStudent(u) /\ ProfileOf(u) # None
        /\ now <= TokenOf(code).expiresAt
        /\ ~Enrolled(ProfileOf(u), TokenOf(code).classId))
       => (last'.resp = NotEnrolled /\ ScanRefused(u, code)
           /\ attendance' = attendance)]_vars

\* a student outside the class has just been refused with NotEnrolled
WitC4 ==
  /\ last.op = "scan" /\ last.resp = NotEnrolled
  /\ HasToken(last.qrCode) /\ now <= TokenOf(last.qrCode).expiresAt
  /\ ~Enrolled(last.studentId, last.classId)

\* the requester of an answered generate-qr is the teacher who owns the class
OwnerTeacher(u, c) ==
  /\ c \in DOMAIN classes
  /\ users[u].role = "TEACHER"
  /\ users[u].teacherProfile # None
  /\ users[u].teacherProfile = classes[c].teacherId

\* the row a pending scan p is to write
RowFor(p) ==
  [studentId |-> p.studentProfile, classId |-> p.classId, date |-> p.date,
   status |-> "PRESENT", qrCode |-> p.qrCode]

\* an issue by the teacher who owns the class succeeds and adds the token
IssueByOwnerSucceeds ==
  (last'.op = "generate-qr" /\ OwnerTeacher(last'.user, last'.classId))
  => /\ last'.resp = Ok200
     /\ \E q \in qrCodes' \ qrCodes : q.code = last'.qrCode /\ q.classId = last'.classId

\* the insert of a scan that passed its checks writes a PRESENT row, answer 200
AcceptedScanIsRecorded ==
  \A p \in BagToSet(scan) :
    ScanCompletes(p) =>
      /\ attendance' = attendance (+) SetToBag({RowFor(p)})
      /\ last'.op = "scan" /\ last'.resp = Ok200 /\ last'.user = p.user

\* C5 as stated: issue by the owning teacher succeeds, and the token redeems
\* successfully (a PRESENT row) for any enrolled student before its expiry.
CexC5_IssueThenRedeem ==
  [][/\ IssueByOwnerSucceeds
     /\ \A u \in UserIds, code \in Codes :
          (/\ ScanArrives(u, code)
           /\ IsStudent(u) /\ ProfileOf(u) # None
           /\ now < TokenOf(code).expiresAt
           /\ Enrolled(ProfileOf(u), TokenOf(code).classId))
          => ScanAccepted(u, code)
     /\ AcceptedScanIsRecorded]_vars

\* C5 amended: ... for any enrolled student who has no row of the class dated
\* today (a student already marked today is refused with AlreadyMarked).
ThmC5_IssueThenRedeemUnmarked ==
  [][/\ IssueByOwnerSucceeds
     /\ \A u \in UserIds, code \in Codes :
          (/\ ScanArrives(u, code)
           /\ IsStudent(u) /\ ProfileOf(u) # None
           /\ now < TokenOf(code).expiresAt
           /\ Enrolled(ProfileOf(u), TokenOf(code).classId)
           /\ ~MarkedOn(ProfileOf(u), TokenOf(code).classId, now))
          => ScanAccepted(u, code)
     /\ AcceptedScanIsRecorded]_vars

\* a token has been redeemed after the instant of its issue and before its expiry
WitC5 ==
  /\ last.op = "scan" /\ last.resp = Ok200
  /\ \E q \in qrCodes, a \in BagToSet(attendance) :
       /\ q.code = last.qrCode /\ a.qrCode = q.code
       /\ a.studentId = last.studentId /\ a.status = "PRESENT"
       /\ a.date > IssuedAt(q.code) /\ a.date < q.expiresAt

\* C6: a token is not used up by a redeem.  For an enrolled student with an
\* unexpired token the scan is refused exactly when the student has a row of
\* the class dated today (rows and pending scans of other students play no
\* part), and the insert of an accepted scan adds the student's own row and
\* leaves every other row alone.
ThmC6_DistinctStudents ==
  [][/\ \A u \in UserIds, code \in Codes :
          (/\ ScanArrives(u, code)
           /\ IsStudent(u) /\ ProfileOf(u) # None
           /\ now <= TokenOf(code).expiresAt
           /\ Enrolled(ProfileOf(u), TokenOf(code).classId))
          => /\ ScanAccepted(u, code)
                  <=> ~MarkedOn(ProfileOf(u), TokenOf(code).classId, now)
             /\ ScanRefused(u, code) => last'.resp = AlreadyMarked
     /\ \A p \in BagToSet(scan) :
          ScanCompletes(p) =>
            /\ last'.resp = Ok200
            /\ \E a \in BagToSet(attendance') :
                 /\ a.studentId = p.studentProfile /\ a.qrCode = p.qrCode
                 /\ attendance' = attendance (+) SetToBag({a})]_vars

\* both students hold a row of the same day written from the same token
WitC6 ==
  /\ last.op = "scan" /\ last.resp = Ok200
  /\ \E a, b \in BagToSet(attendance) :
       /\ a.studentId = "sp1" /\ b.studentId = "sp2"
       /\ a.qrCode = b.qrCode /\ a.classId = b.classId
       /\ DayOf(a.date) = DayOf(b.date)

\* the first and the last step of the scenario of C7, for a token issued at T:
\* an enrolled student with no row of the class is accepted at T+1 and gets a
\* PRESENT row; an enrolled student is refused with Expired at T+16.
ScenarioEnds ==
  /\ \A u \in UserIds, code \in Codes :
       (/\ ScanArrives(u, code)
        /\ IsStudent(u) /\ ProfileOf(u) # None
        /\ Enrolled(ProfileOf(u), TokenOf(code).classId))
       => /\ (now = IssuedAt(code) + 1 /\ RowsOf(ProfileOf(u), TokenOf(code).classId) = {})
               => ScanAccepted(u, code)
          /\ now = IssuedAt(code) + ExpiryMinutes + 1
               => (last'.resp = Expired /\ ScanRefused(u, code)
                   /\ attendance' = attendance)
  /\ AcceptedScanIsRecorded

\* C7 as stated: token issued at T; enrolled A redeems at T+1: PRESENT row; A
\* redeems the same token at T+2: AlreadyMarked, no second row; enrolled B
\* redeems at T+16: Expired, no row.
CexC7_Scenario ==
  [][/\ ScenarioEnds
     /\ \A u \in UserIds, code \in Codes :
          (/\ ScanArrives(u, code)
           /\ IsStudent(u) /\ ProfileOf(u) # None
           /\ Enrolled(ProfileOf(u), TokenOf(code).classId)
           /\ now = IssuedAt(code) + 2
           /\ \E a \in RowsOf(ProfileOf(u), TokenOf(code).classId) :
                a.date = IssuedAt(code) + 1 /\ a.qrCode = code)
          => (last'.resp = AlreadyMarked /\ ScanRefused(u, code)
              /\ attendance' = attendance)]_vars

\* C7 amended: the same, with AlreadyMarked at T+2 when T+1 and T+2 are on the
\* same calendar day (across a midnight the second redeem succeeds).
ThmC7_ScenarioSameDay ==
  [][/\ ScenarioEnds
     /\ \A u \in UserIds, code \in Codes :
          (/\ ScanArrives(u, code)
           /\ IsStudent(u) /\ ProfileOf(u) # None
           /\ Enrolled(ProfileOf(u), TokenOf(code).classId)
           /\ now = IssuedAt(code) + 2
           /\ DayOf(IssuedAt(code) + 1) = DayOf(now)
           /\ \E a \in RowsOf(ProfileOf(u), TokenOf(code).classId) :
                a.date = IssuedAt(code) + 1 /\ a.qrCode = code)
          => (last'.resp = AlreadyMarked /\ ScanRefused(u, code)
              /\ attendance' = attendance)]_vars

\* the end of the scenario: A holds the one row, written at T+1 on the day of
\* T+2, and B, enrolled, has just been refused with Expired at T+16
WitC7 ==
  /\ last.op = "scan" /\ last.resp = Expired /\ last.user = "s2"
  /\ Enrolled("sp2", last.classId)
  /\ now = IssuedAt(last.qrCode) + ExpiryMinutes + 1
  /\ DayOf(IssuedAt(last.qrCode) + 1) = DayOf(IssuedAt(last.qrCode) + 2)
  /\ BagCardinality(attendance) = 1
  /\ \E a \in BagToSet(attendance) :
       /\ a.studentId = "sp1" /\ a.qrCode = last.qrCode
       /\ a.date = IssuedAt(last.qrCode) + 1 /\ a.status = "PRESENT"

\* C8: a token row is created only by a generate-qr request of an ADMIN or of
\* the TEACHER whose profile owns the class; a STUDENT, and a TEACHER who does
\* not own the class or has no teacher profile, get 403 and no row is created.
ThmC8_IssueAuthorized ==
  [][/\ qrCodes' # qrCodes =>
          /\ last'.op = "generate-qr"
          /\ last'.classId \in DOMAIN classes
          /\ \/ users[last'.user].role = "ADMIN"
             \/ OwnerTeacher(last'.user, last'.classId)
     /\ (/\ last'.op = "generate-qr"
         /\ last'.classId \in DOMAIN classes
         /\ \/ users[last'.user].role = "STUDENT"
            \/ /\ users[last'.user].role = "TEACHER"
               /\ ~OwnerTeacher(last'.user, last'.classId))
        => (last'.resp.status = 403 /\ qrCodes' = qrCodes)]_vars

\* teacher t2, who does not own c1, has just been refused a token for c1
WitC8 ==
  /\ last.op = "generate-qr" /\ last.user = "t2" /\ last.classId = "c1"
  /\ last.resp.status = 403
  /\ ~OwnerTeacher("t2", "c1")

\* C9: a successful issue adds exactly one token row, bound to the requested
\* class, expiring exactly 15 minutes after the time of the issue.
ThmC9_IssueRow ==
  [][(last'.op = "generate-qr" /\ last'.resp.status = 200)
     => \E q \in qrCodes' :
          /\ q \notin qrCodes
          /\ qrCodes' = qrCodes \cup {q}
          /\ q.code = last'.qrCode
          /\ q.classId = last'.classId
          /\ q.expiresAt = now + ExpiryMinutes]_vars

\* a token has just been issued
WitC9 ==
  /\ last.op = "generate-qr" /\ last.resp = Ok200
  /\ \E q \in qrCodes : q.code = last.qrCode /\ q.expiresAt = now + ExpiryMinutes

\* C10: a successful scan creates exactly one row, with the student's profile
\* id, the class of the token, status PRESENT, the time of the redemption as
\* date, and the token string; no other row is created, changed or removed,
\* and the rows change in no other way.
ThmC10_RedeemRow ==
  [][/\ \A u \in UserIds, code \in Codes :
          ScanAccepted(u, code) =>
            scan' = scan (+) SetToBag({[user |-> u, studentProfile |-> ProfileOf(u),
                                        qrCode |-> code, classId |-> TokenOf(code).classId,
                                        date |-> now]})
     /\ (last'.op = "scan" /\ last'.resp.status = 200) =>
          \E p \in BagToSet(scan) :
            /\ ScanCompletes(p)
            /\ p.user = last'.user /\ p.qrCode = last'.qrCode
            /\ attendance' = attendance (+) SetToBag({RowFor(p)})
     /\ attendance' # attendance => (last'.op = "scan" /\ last'.resp.status = 200)]_vars

\* a scan has just succeeded, and its row, not dated at a midnight, is there
WitC10 ==
  /\ last.op = "scan" /\ last.resp = Ok200
  /\ \E a \in BagToSet(attendance) :
       /\ a.studentId = last.studentId /\ a.classId = last.classId
       /\ a.qrCode = last.qrCode /\ a.status = "PRESENT"
       /\ a.date % DayMinutes # 0

\* C11: a scan changes no token row and no user, class or enrollment; a
\* refused scan leaves the attendance rows as they are, and a successful one
\* adds one row and leaves every row that was there in place.
ThmC11_ScanFrame ==
  [][(scan' # scan \/ last'.op = "scan") =>
       /\ qrCodes' = qrCodes
       /\ users' = users /\ classes' = classes /\ enrollments' = enrollments
       /\ IF last'.op = "scan" /\ last'.resp.status = 200
            THEN \E a \in BagToSet(attendance') :
                   attendance' = attendance (+) SetToBag({a})
            ELSE attendance' = attendance]_vars

\* a scan has just succeeded: its token is still there, and so is a row that
\* the student already had for the class
WitC11 ==
  /\ last.op = "scan" /\ last.resp = Ok200
  /\ HasToken(last.qrCode)
  /\ \E a, b \in RowsOf(last.studentId, last.classId) :
       a.qrCode = last.qrCode /\ (a # b \/ CopiesIn(a, attendance) > 1)

\* the requests behind [authenticateToken, authorizeRoles(...)], with the
\* roles the route names
GuardedOps ==
  {"enroll", "unenroll", "delete-user", "update-class", "delete-class", "class-attendance"}
AllowedRoles(op) ==
  CASE op \in {"enroll", "unenroll", "class-attendance"} -> {"ADMIN", "TEACHER"}
    [] op \in {"delete-user", "update-class", "delete-class"} -> {"ADMIN"}

\* C12: a request behind authenticateToken and authorizeRoles(allowed) with no
\* token, a token that does not verify or the token of a user who no longer
\* exists is answered 401; with the token of a user whose role is not allowed
\* it is answered 403; in both cases nothing stored changes, and any other
\* answer (the handler ran) is given only when both checks passed.
ThmC12_Gate ==
  [][last'.op \in GuardedOps =>
       /\ (last'.user \in {NoToken, BadToken} \/ last'.user \notin DOMAIN users)
            => (last'.resp.status = 401 /\ db' = db)
       /\ (last'.user \in DOMAIN users
            /\ users[last'.user].role \notin AllowedRoles(last'.op))
            => (last'.resp = Forbidden /\ db' = db)
       /\ (last'.resp.status # 401 /\ last'.resp # Forbidden)
            => (last'.user \in DOMAIN users
                /\ users[last'.user].role \in AllowedRoles(last'.op))]_vars

\* the token of a deleted user has just been refused with 401
WitC12 ==
  /\ last.op \in GuardedOps
  /\ last.user \in UserIds \ DOMAIN users
  /\ last.resp = Unauthorized("Invalid token")

\* C13: the attendance of an existing class is reported (200) only to an
\* ADMIN or to the TEACHER whose profile owns the class; every other user is
\* answered 403; the request changes nothing stored, whatever its answer.
ThmC13_ReportAuthorized ==
  [][last'.op = "class-attendance" =>
       /\ UNCHANGED <<db, scan, roleVars>>
       /\ last'.resp.status = 200 =>
            /\ last'.user \in DOMAIN users
            /\ \/ users[last'.user].role = "ADMIN"
               \/ OwnerTeacher(last'.user, last'.target)
       /\ (/\ last'.user \in DOMAIN users
           /\ last'.target \in DOMAIN classes
           /\ users[last'.user].role # "ADMIN"
           /\ ~OwnerTeacher(last'.user, last'.target))
          => last'.resp.status = 403]_vars

\* a teacher has just been refused the attendance of a class of another teacher
WitC13 ==
  /\ last.op = "class-attendance" /\ last.resp = NotOwnClassView
  /\ last.user \in DOMAIN users /\ users[last.user].role = "TEACHER"
  /\ last.target \in DOMAIN classes /\ ~OwnerTeacher(last.user, last.target)

\* the calendar day a class-attendance request asks for
ReportDay(l) == DayOf(IF l.arg = NoDate THEN now ELSE l.arg)
\* the rows of the student and class dated on that day
RowsOn(sp, c, day) == {a \in RowsOf(sp, c) : DayOf(a.date) = day}

\* C14: a report lists the students enrolled in the class, each once, with
\* the status of the student's row of the class on the calendar day of the
\* date (ABSENT when there is none); total is the number of students enrolled
\* and present + absent + late = total.
ThmC14_Report ==
  (last.op = "class-attendance" /\ last.resp.status = 200) =>
    LET entries == last.body.attendance
        summary == last.body.summary
    IN /\ DOMAIN entries = {e[1] : e \in {x \in enrollments : x[2] = last.target}}
       /\ \A sp \in DOMAIN entries :
            IF RowsOn(sp, last.target, ReportDay(last)) = {}
              THEN entries[sp] = "ABSENT"
              ELSE \E a \in RowsOn(sp, last.target, ReportDay(last)) : entries[sp] = a.status
       /\ summary.total = Cardinality({e \in enrollments : e[2] = last.target})
       /\ summary.present + summary.absent + summary.late = summary.total
       /\ summary.present = Cardinality({sp \in DOMAIN entries : entries[sp] = "PRESENT"})
       /\ summary.late = Cardinality({sp \in DOMAIN entries : entries[sp] = "LATE"})

\* a report of a day on which one student was late and the other absent,
\* while both have a PRESENT row of another day
WitC14 ==
  /\ last.op = "class-attendance" /\ last.resp.status = 200
  /\ last.body.summary = [total |-> 2, present |-> 0, absent |-> 1, late |-> 1]
  /\ \A sp \in DOMAIN last.body.attendance :
       \E a \in RowsOf(sp, last.target) :
         a.status = "PRESENT" /\ DayOf(a.date) # ReportDay(last)

AlreadyEnrolled == Resp(400, "Already enrolled", "Student is already enrolled in this class")

\* C15: an enroll request of an ADMIN or TEACHER for a pair that has an
\* enrollment is refused with AlreadyEnrolled and leaves the enrollments as
\* they are; an enrollment is added only by an enroll request answered 201,
\* for a pair that had none, and it is the only change of that request; an
\* enroll request that is refused changes none.
ThmC15_EnrollOnce ==
  [][/\ last'.op = "enroll" =>
          /\ (/\ users[last'.user].role \in {"ADMIN", "TEACHER"}
              /\ <<last'.studentId, last'.classId>> \in enrollments)
             => (last'.resp = AlreadyEnrolled /\ enrollments' = enrollments)
          /\ last'.resp.status = 201 =>
               /\ <<last'.studentId, last'.classId>> \notin enrollments
               /\ enrollments' = enrollments \cup {<<last'.studentId, last'.classId>>}
          /\ last'.resp.status # 201 => enrollments' = enrollments
     /\ ~(enrollments' \subseteq enrollments) =>
          (last'.op = "enroll" /\ last'.resp.status = 201)]_vars

\* student s2, enrolled by an earlier request, has just been refused a second
\* enrollment in the class
WitC15 ==
  /\ last.op = "enroll" /\ last.resp = AlreadyEnrolled
  /\ last.studentId = "sp2" /\ <<"sp2", last.classId>> \in enrollments

\* the profile ids of a user row
ProfilesOf(user) == {user.studentProfile, user.teacherProfile, user.adminProfile} \ {None}

\* C16: after a DELETE /users/:id answered 200 the user row is gone, no user
\* row carries one of its profiles, and no enrollment and no attendance row
\* refers to its student profile.
ThmC16_DeleteCascade ==
  [][(last'.op = "delete-user" /\ last'.resp.status = 200) =>
       /\ last'.target \in DOMAIN users
       /\ last'.target \notin DOMAIN users'
       /\ \A u \in DOMAIN users' :
            ProfilesOf(users'[u]) \cap ProfilesOf(users[last'.target]) = {}
       /\ \A e \in enrollments' : e[1] \notin ProfilesOf(users[last'.target])
       /\ \A a \in BagToSet(attendance') :
            a.studentId \notin ProfilesOf(users[last'.target])]_vars

\* student s1, who was enrolled and had attendance rows, has just been
\* deleted; the rows of student s2 are still there
WitC16 ==
  /\ last.op = "delete-user" /\ last.resp = Ok200 /\ last.target = "s1"
  /\ "s1" \notin DOMAIN users
  /\ \A e \in enrollments : e[1] # "sp1"
  /\ <<"sp2", "c1">> \in enrollments
  /\ \E a \in BagToSet(attendance) : a.studentId = "sp2"

\* this step ends a role change in the catch block after its first write
RoleChangeAborts ==
  /\ roleReq.pc \in {"update", "create"}
  /\ roleReq' = NoRoleReq
  /\ last'.resp.status = 500

\* C17: a role change that fails after its first write leaves what it has
\* written: the user, if still there, has no profile at all, with the old
\* role when the failure comes before the update of the role and with the new
\* role when it comes after it.
ThmC17_RoleChangeTorn ==
  [][(RoleChangeAborts /\ roleReq.id \in DOMAIN users) =>
       /\ db' = db
       /\ ProfilesOf(users'[roleReq.id]) = {}
       /\ users'[roleReq.id].role =
            IF roleReq.pc = "update" THEN roleReq.old ELSE roleReq.role]_vars

\* no role change is in progress and two users are left without a profile,
\* one with the role it had and one with a new role
WitC17 ==
  /\ roleReq = NoRoleReq
  /\ last.op = "role" /\ last.resp = RoleUpdateFailed
  /\ \E u, v \in DOMAIN users :
       /\ ProfilesOf(users[u]) = {} /\ users[u].role = SeedUsers[u].role
       /\ ProfilesOf(users[v]) = {} /\ users[v].role # SeedUsers[v].role

\* the user row has the profile of its role and no other
OneProfileOfRole(user) ==
  /\ (user.studentProfile # None) <=> (user.role = "STUDENT")
  /\ (user.teacherProfile # None) <=> (user.role = "TEACHER")
  /\ (user.adminProfile # None) <=> (user.role = "ADMIN")
  /\ Cardinality(ProfilesOf(user)) = 1

\* C18: when a role change (none other running for the user meanwhile) has
\* been answered 200, the user has the requested role, the profile of that
\* role and no other profile.
ThmC18_RoleChangeDone ==
  (last.op = "role" /\ last.resp.status = 200) =>
    /\ last.target \in DOMAIN users
    /\ users[last.target].role = last.arg
    /\ OneProfileOfRole(users[last.target])

\* the second role change has just given a user a role other than the one it
\* had at first, and every user has a profile
WitC18 ==
  /\ last.op = "role" /\ last.resp = Ok200
  /\ roleSeq = 2
  /\ users[last.target].role # SeedUsers[last.target].role
  /\ \A u \in DOMAIN users : ProfilesOf(users[u]) # {}

CexC20_MissingIs404 ==
  [][(/\ last'.user \in DOMAIN users
      /\ \/ /\ last'.op \in {"update-class", "delete-class"}
            /\ users[last'.user].role = "ADMIN"
            /\ last'.arg # ""
            /\ last'.target \notin DOMAIN classes
         \/ /\ last'.op = "unenroll"
            /\ users[last'.user].role \in {"ADMIN", "TEACHER"}
            /\ last'.classId \notin DOMAIN classes
         \/ /\ last'.op = "update-user"
            /\ users[last'.user].role = "ADMIN"
            /\ validName(last'.arg)
            /\ last'.target \notin DOMAIN users)
     => (last'.resp.status = 404 /\ db' = db)]_vars

\* C21 as stated, for the scan route: a storage call of the request that
\* throws is answered with a 500 and writes nothing.
CexC21_ThrowIs500 ==
  [][last'.op = "scan-throws" => (last'.resp.status = 500 /\ db' = db)]_vars

\* the first of the failures of a redeem that holds for that student and
\* token string now, in the order not found, expired, not enrolled, already
\* marked; NoResp when none holds
FirstFailure(sp, code) ==
  IF ~HasToken(code) THEN InvalidQr
  ELSE IF now > TokenOf(code).expiresAt THEN Expired
  ELSE IF ~Enrolled(sp, TokenOf(code).classId) THEN NotEnrolled
  ELSE IF MarkedOn(sp, TokenOf(code).classId, now) THEN AlreadyMarked
  ELSE NoResp

\* C22: a redeem by a student that fails is answered with the first failure
\* that holds, in the order not found, expired, not enrolled, already marked,
\* and writes no attendance row; a redeem that gets as far as its insert is
\* one for which none of them holds.
ThmC22_RedeemOrder ==
  [][/\ (last'.op = "scan" /\ IsStudent(last'.user) /\ last'.resp # Ok200) =>
          /\ last'.resp = FirstFailure(last'.studentId, last'.qrCode)
          /\ attendance' = attendance
     /\ \A p \in BagToSet(scan') :
          CopiesIn(p, scan') > CopiesIn(p, scan) =>
            FirstFailure(p.studentProfile, p.qrCode) = NoResp]_vars

\* a student who is marked today and is no longer enrolled has just presented
\* the token after its expiry and got Expired
WitC22 ==
  /\ last.op = "scan" /\ last.resp = Expired
  /\ MarkedOn(last.studentId, last.classId, now)
  /\ ~Enrolled(last.studentId, last.classId)

\* the midnight that starts the calendar day of t
MidnightOf(t) == DayOf(t) * DayMinutes

\* C23: the rows that block a redeem are those of the student and class
\* dated in the calendar day of the redemption time.  With a row dated at or
\* after the midnight of today the redeem is refused and writes nothing; it is
\* refused with AlreadyMarked only when there is such a row, dated before the
\* next midnight; and rows of before the midnight, however recent, do not keep
\* an enrolled student with an unexpired token from being accepted.
ThmC23_CalendarDayWindow ==
  [][\A u \in UserIds, code \in Codes :
       (ScanArrives(u, code) /\ IsStudent(u) /\ ProfileOf(u) # None) =>
         LET rows == RowsOf(ProfileOf(u), TokenOf(code).classId)
             today == {a \in rows : a.date >= MidnightOf(now)}
         IN /\ today # {} => (ScanRefused(u, code) /\ attendance' = attendance)
            /\ (ScanRefused(u, code) /\ last'.resp = AlreadyMarked) =>
                 \E a \in today : a.date < MidnightOf(now) + DayMinutes
            /\ (/\ today = {}
                /\ now <= TokenOf(code).expiresAt
                /\ Enrolled(ProfileOf(u), TokenOf(code).classId))
               => ScanAccepted(u, code)]_vars

\* a redeem has just succeeded for a student who holds a row of the class
\* dated before the midnight and less than 24 hours before the new row
WitC23 ==
  /\ last.op = "scan" /\ last.resp = Ok200
  /\ \E a, b \in RowsOf(last.studentId, last.classId) :
       /\ a.date < MidnightOf(now) /\ b.date >= MidnightOf(now)
       /\ b.date - a.date < DayMinutes

\* C24: a request guarded by isOwnerOrAdmin(field) reaches its handler if and
\* only if req.user is set and either is an ADMIN or has the id the parameter
\* named by field carries; otherwise it is answered 401 when req.user is not
\* set and 403 when it is, and the handler has not run.
ThmC24_OwnerOrAdmin ==
  last.op = "owner-gate" =>
    LET passes == /\ last.user # None
                  /\ \/ users[last.user].role = "ADMIN"
                     \/ last.arg[last.target] = last.user
    IN /\ last.body <=> passes
       /\ last.body => last.resp = Ok200
       /\ ~last.body => last.resp.status = IF last.user = None THEN 401 ELSE 403

\* a student has just passed with its own id in the parameter the route names
\* while the other parameter carries another user's id
WitC24 ==
  /\ last.op = "owner-gate" /\ last.body
  /\ last.user = "s1" /\ last.target = "id"
  /\ last.arg["id"] = "s1" /\ last.arg["userId"] = "s2"

\* this step answers a request of a user who is no ADMIN to read or update
\* the user row of somebody else
OtherProfileRequest ==
  /\ last'.op \in {"update-user", "get-user"}
  /\ last'.user \in DOMAIN users
  /\ users[last'.user].role # "ADMIN"
  /\ last'.target # last'.user

\* no user row changes its role or its password in this step
RoleAndPasswordKept ==
  /\ DOMAIN users' = DOMAIN users
  /\ \A u \in DOMAIN users :
       users'[u].role = users[u].role /\ users'[u].password = users[u].password

CexC26_RaceKeepsOneProfile ==
  race = {} => \A u \in DOMAIN users : OneProfileOfRole(users[u])

\* C27 as stated: in every answer of the teacher and admin dashboards, each
\* class has totalStudents equal to the number of its enrollments,
\* presentStudents at most totalStudents and absentStudents at least 0.
CexC27_PresentWithinTotal ==
  (last.op \in {"teacher-dashboard", "admin-dashboard"} /\ last.resp = Ok200) =>
    \A c \in DOMAIN last.body :
      /\ last.body[c].totalStudents = Cardinality({e \in enrollments : e[2] = c})
      /\ last.body[c].presentStudents <= last.body[c].totalStudents
      /\ last.body[c].absentStudents >= 0

\* C28 as stated: a schedule update, a token issuance, an enrollment or a
\* removal asked by a TEACHER whose profile does not own the class is answered
\* 403 and leaves the class, its tokens and its enrollments as they were.
CexC28_TeacherOwnClassOnly ==
  [][(/\ last'.op \in {"update-schedule", "generate-qr", "enroll", "unenroll"}
      /\ last'.user \in DOMAIN users
      /\ users[last'.user].role = "TEACHER"
      /\ last'.classId \in DOMAIN classes
      /\ ~OwnerTeacher(last'.user, last'.classId))
     => /\ last'.resp.status = 403
        /\ classes' = classes /\ qrCodes' = qrCodes /\ enrollments' = enrollments]_vars

\* this step answers a scan of a user of role STUDENT without student profile
ProfilelessScan ==
  /\ last'.op = "scan"
  /\ users[last'.user].role = "STUDENT"
  /\ users[last'.user].studentProfile = None

\* C29 as stated: a scan by a user of role STUDENT who has no student profile
\* is answered 500 and writes no attendance row.
CexC29_ProfilelessScanIs500 ==
  [][ProfilelessScan => (last'.resp.status = 500 /\ attendance' = attendance)]_vars

\* C29 amended: such a scan writes no attendance row and is never answered
\* 200; it is answered 500 when the token exists and has not expired, and 400
\* (invalid or expired QR code) otherwise, the token being looked at first.
ThmC29_ProfilelessScan ==
  [][ProfilelessScan =>
       /\ attendance' = attendance /\ scan' = scan
       /\ last'.resp =
            IF ~HasToken(last'.qrCode) THEN InvalidQr
            ELSE IF now > TokenOf(last'.qrCode).expiresAt THEN Expired
            ELSE MarkingFailed]_vars

\* a user whom a failed role change has left with role STUDENT and no profile
\* has just presented an unexpired token and got 500
WitC29 ==
  /\ last.op = "scan" /\ last.resp = MarkingFailed
  /\ users[last.user].role = "STUDENT" /\ users[last.user].studentProfile = None
  /\ HasToken(last.qrCode) /\ now <= TokenOf(last.qrCode).expiresAt
  /\ roleReq = NoRoleReq

\* the tokens that have not expired
ActiveTokens == {q \in qrCodes : now <= q.expiresAt}

\* C30: a new token leaves the earlier tokens as they were (no step removes
\* or changes a token); whether an enrolled student not yet marked today gets
\* a token accepted depends on the expiresAt of that token alone; and a
\* student with a row of today of the class is refused with AlreadyMarked on
\* every unexpired token of the class, the one of the row or another.
ThmC30_TokensSideBySide ==
  [][/\ qrCodes \subseteq qrCodes'
     /\ (last'.op = "generate-qr" /\ last'.resp = Ok200) =>
          /\ Cardinality(qrCodes') = Cardinality(qrCodes) + 1
          /\ attendance' = attendance
     /\ \A u \in UserIds, code \in Codes :
          (/\ ScanArrives(u, code)
           /\ IsStudent(u) /\ ProfileOf(u) # None
           /\ Enrolled(ProfileOf(u), TokenOf(code).classId))
          => IF now > TokenOf(code).expiresAt
               THEN ScanRefused(u, code) /\ last'.resp = Expired
             ELSE IF MarkedOn(ProfileOf(u), TokenOf(code).classId, now)
               THEN ScanRefused(u, code) /\ last'.resp = AlreadyMarked
             ELSE ScanAccepted(u, code)]_vars

\* two tokens of the class are active, and the student who redeemed one of
\* them today has just been refused with AlreadyMarked on the other
WitC30 ==
  /\ last.op = "scan" /\ last.resp = AlreadyMarked
  /\ Cardinality({q \in ActiveTokens : q.classId = last.classId}) >= 2
  /\ \E a \in RowsOf(last.studentId, last.classId) :
       /\ DayOf(a.date) = DayOf(now)
       /\ a.qrCode # last.qrCode
       /\ a.qrCode \in {q.code : q \in ActiveTokens}

====
